---- MODULE Spec2Model ----
(* Model of src/src/main.rs: the TF-IDF pipeline                            *)
(*   calc_inverse_document_freq -> calc_tf_idf -> build_search_trie -> search *)
(* run once by main on the word counts of a corpus.                         *)
(*                                                                          *)
(* Words are sequences of one-character strings.  A document key is a       *)
(* natural number.  An f64 is a fixed-point number: the integer x stands    *)
(* for x / Scale, and NaN is a separate value.  The fixed point gives the   *)
(* digits of a score to within Tolerance; what the f64 holds beyond them is *)
(* a choice wherever it can decide a comparison: a score of tf_idf is its   *)
(* digits and, below them, its place among the f64 of those digits (see     *)
(* CalcTfIdfOf).  HashMap iteration order, which Rust leaves unspecified,   *)
(* is a nondeterministic choice wherever the result depends on it: the fold *)
(* over documents of build_search_trie, and the f64 sum of l2_normalize,    *)
(* whose last place changes with the order of its terms.  The bigdecimal    *)
(* crate is not part of the source: the conversion of BigDecimal::from_f64  *)
(* is one of the two its releases have (see FromF64Of).                     *)
EXTENDS Integers, Sequences, FiniteSets, TLC

\* ---------------------------------------------------------------- bounds
MaxDocs == 2
MaxDocLen == 3
MaxWideDocs == 10
MaxWideWords == 12
\* a corpus holds a document up to MaxCopies times
MaxCopies == 2


\* ------------------------------------------------------------ f64 numbers
\* An f64 keeps some 16 significant digits; the model keeps
\*   - a count, a sum of counts and a quotient of two of them exactly (the
\*     quotient as a fraction in lowest terms),
\*   - an idf and a score to ScaleDigits decimal places, rounded to nearest
\*     as the f64 operations round.
Scale == 10^6
\* the digits of Scale
ScaleDigits == 6
\* no number the model computes
NaN == -(10^9) - 1

\* the series of the logarithm is summed to FineDigits places
Fine == 10^9
FineDigits == 9

\* wide products are taken in limbs, so that no product leaves 32 bits
Limb == 10^3

\* the computed digits of a score are within Tolerance / Scale of the f64
\* (the roundings of l2_normalize add up to less than 1.2 / Scale)
Tolerance == 2

Abs(x) == IF x < 0 THEN -x ELSE x

RECURSIVE Gcd(_, _)
Gcd(a, b) == IF b = 0 THEN a ELSE Gcd(b, a % b)

\* x as f64 / y as f64 of two integers.  The division is correctly rounded:
\* equal fractions give the same f64.  x / 0 is <<0, 0>>, taken as a NaN
Fraction(a, b) ==
    IF b = 0 THEN <<0, 0>>
    ELSE LET g == Gcd(a, b)
         IN <<a \div g, b \div g>>

\* n more decimal digits of the quotient whose integer part is q, r the
\* rest: <<quotient, rest>>
RECURSIVE LongDiv(_, _, _, _)
LongDiv(q, r, b, n) ==
    IF n = 0 THEN <<q, r>>
    ELSE LongDiv(10 * q + (10 * r) \div b, (10 * r) % b, b, n - 1)

\* a / b of a >= 0, b > 0 to n decimal places, rounded to nearest
DivTo(a, b, n) ==
    LET g == Gcd(a, b)
        d == b \div g
        qr == LongDiv((a \div g) \div d, (a \div g) % d, d, n)
    IN IF 2 * qr[2] >= d THEN qr[1] + 1 ELSE qr[1]

\* a / b of two fixed-point numbers of the same unit, to ScaleDigits places
FDiv(a, b) ==
    IF a = NaN \/ b = NaN \/ b = 0 THEN NaN
    ELSE IF (a < 0) = (b < 0) THEN DivTo(Abs(a), Abs(b), ScaleDigits)
    ELSE -DivTo(Abs(a), Abs(b), ScaleDigits)

\* <<h, l>> with a * b = h * Scale + l and 0 <= l < Scale
MulWide(a, b) ==
    LET a1 == a \div Limb
        a0 == a % Limb
        b1 == b \div Limb
        b0 == b % Limb
        x == a1 * b0 + a0 * b1
        t == (x % Limb) * Limb + a0 * b0
    IN <<a1 * b1 + x \div Limb + t \div Scale, t % Scale>>

\* a * b / Fine of 0 <= a, b < Fine, in three limbs each
MulFine(a, b) ==
    LET a2 == a \div Scale
        a1 == (a \div Limb) % Limb
        a0 == a % Limb
        b2 == b \div Scale
        b1 == (b \div Limb) % Limb
        b0 == b % Limb
        c0 == a0 * b0
        c1 == a1 * b0 + a0 * b1
        c2 == a2 * b0 + a1 * b1 + a0 * b2
        c3 == a2 * b1 + a1 * b2
        c4 == a2 * b2
    IN c4 * Limb + c3 + (c2 + (c1 + c0 \div Limb) \div Limb) \div Limb

\* tf_score * idf of a fraction and a fixed-point number, to ScaleDigits + 1
\* places: the unit of a vector that is normalized next is free, and the
\* product keeps one more digit than the scores
FMul(x, b) ==
    IF x[2] = 0 \/ b = NaN THEN NaN
    ELSE LET wide == 10 * b
             rest == x[1] * (wide % x[2])
             whole == x[1] * (wide \div x[2]) + rest \div x[2]
         IN IF 2 * (rest % x[2]) >= x[2] THEN whole + 1 ELSE whole

RECURSIVE Newton(_, _)
Newton(n, r) ==
    LET s == (r + n \div r) \div 2
    IN IF s >= r THEN r ELSE Newton(n, s)

\* one more decimal digit of a square root: rs = <<root, rest>>, two more
\* digits of the radicand in pair
SqrtDigit(rs, pair) ==
    LET r == rs[1]
        target == 100 * rs[2] + pair
        d == CHOOSE e \in 0..9 :
                /\ 20 * r * e + e * e <= target
                /\ e = 9 \/ 20 * r * (e + 1) + (e + 1) * (e + 1) > target
    IN <<10 * r + d, target - 20 * r * d - d * d>>

\* f64::sqrt of h * Scale + l, rounded to nearest
SqrtWide(h, l) ==
    LET r0 == IF h = 0 THEN 0 ELSE Newton(h, h)
        s1 == SqrtDigit(<<r0, h - r0 * r0>>, l \div 10^4)
        s2 == SqrtDigit(s1, (l \div 100) % 100)
        s3 == SqrtDigit(s2, l % 100)
    IN IF s3[2] > s3[1] THEN s3[1] + 1 ELSE s3[1]

\* the terms p / k of atanh y = y + y^3 / 3 + y^5 / 5 + ..., summed in
\* units of 10 / Fine
RECURSIVE AtanhSeries(_, _, _)
AtanhSeries(p, k, y2) ==
    IF p = 0 THEN 0
    ELSE (p \div 10 + k \div 2) \div k + AtanhSeries(MulFine(p, y2), k + 2, y2)

\* f64::ln of a fraction x = <<n, d>>: ln x = 2 atanh((n - d) / (n + d)), and
\* atanh(-y) = -atanh(y); to ScaleDigits places
FLn(x) ==
    IF x[2] = 0 \/ x[1] <= 0 THEN NaN
    ELSE LET y == DivTo(Abs(x[1] - x[2]), x[1] + x[2], FineDigits)
             t == (2 * AtanhSeries(y, 1, MulFine(y, y)) + 50) \div 100
         IN IF x[1] >= x[2] THEN t ELSE -t

\* ------------------------------------------------------------- characters
\* lines 11-18; the grave accent is written "backtick"
PUNCTUATION_CHARS ==
    {"!", "\"", "#", "$", "%", "&", "'", "(", ")", "*", "+", ",", ";", ".",
     "/", ":", "<", "=", ">", "?", "@", "[", "\\", "]", "^", "_", "backtick", "{",
     "|", "}", "~", "-"}

\* str::to_lowercase on the characters the model uses
ToLowercase(ch) ==
    CASE ch = "A" -> "a"
      [] ch = "P" -> "p"
      [] ch = "Z" -> "z"
      [] OTHER -> ch

\* the UTF-8 byte of a (sanitized) character, the trie's key order
ByteOf(ch) ==
    CASE ch = "a" -> 97
      [] ch = "p" -> 112
      [] ch = "z" -> 122
      [] OTHER -> 0

MapLower(s) == [i \in 1..Len(s) |-> ToLowercase(s[i])]

NotPunctuation(ch) == ch \notin PUNCTUATION_CHARS

\* lines 45-49 (and 198-202): lowercase, then drop the punctuation characters
Sanitize(input) == SelectSeq(MapLower(input), NotPunctuation)

IsPrefix(p, w) == Len(p) <= Len(w) /\ SubSeq(w, 1, Len(p)) = p

RECURSIVE LexLess(_, _)
LexLess(u, v) ==
    IF u = <<>> THEN v # <<>>
    ELSE IF v = <<>> THEN FALSE
    ELSE IF ByteOf(Head(u)) # ByteOf(Head(v)) THEN ByteOf(Head(u)) < ByteOf(Head(v))
    ELSE LexLess(Tail(u), Tail(v))

\* ------------------------------------------------------------ the corpora
TermList ==
    << <<"a">>, <<"a", "p">>, <<"p">>, <<>>,
       <<"a", "a">>, <<"p", "a">>, <<"p", "p">>,
       <<"a", "a", "a">>, <<"a", "a", "p">>, <<"a", "p", "a">>, <<"a", "p", "p">>,
       <<"p", "a", "a">>, <<"p", "a", "p">>, <<"p", "p", "a">>, <<"p", "p", "p">> >>

Filler == <<"z">>

SmallWords == {TermList[i] : i \in 1..3}

RECURSIVE SumOf(_, _)
SumOf(m, keys) ==
    IF keys = {} THEN 0
    ELSE LET k == CHOOSE x \in keys : TRUE
         IN m[k] + SumOf(m, keys \ {k})

\* a document's word counts (lines 195-204): the words of up to MaxDocLen
\* tokens, each word counted as often as it occurs
WordCounts ==
    {m \in UNION {[ws -> 1..MaxDocLen] : ws \in SUBSET SmallWords} :
        SumOf(m, DOMAIN m) <= MaxDocLen}

\* a number for a document's word counts, to list documents in one order
DocCode(m) ==
    LET digit(i) == IF TermList[i] \in DOMAIN m THEN m[TermList[i]] ELSE 0
    IN digit(1) + (MaxDocLen + 1) * (digit(2) + (MaxDocLen + 1) * digit(3))

\* the corpora of n documents.  Which document has which key changes nothing
\* (no step reads a key, and the folds visit the documents in any order), so
\* the documents of a corpus are listed in the order of their codes
RECURSIVE CorporaOf(_)
CorporaOf(n) ==
    IF n = 0 THEN {<<>>}
    ELSE UNION {{Append(c, m) : m \in {x \in WordCounts :
                                  n = 1 \/ DocCode(c[n - 1]) <= DocCode(x)}} :
                c \in CorporaOf(n - 1)}

\* nd documents, each holding the first nw terms once and the filler d times
WideCorpus(nd, nw) ==
    [d \in 1..nd |->
        [w \in {TermList[i] : i \in 1..nw} \cup {Filler} |->
            IF w = Filler THEN d ELSE 1]]

SmallCorpora == UNION {CorporaOf(n) : n \in 0..MaxDocs}

\* k copies of document m and one document of the single word w.  Documents
\* of the same words and counts are where the order of an f64 sum shows, and
\* the last document gives the words of m different idfs
RepeatCorpus(m, k, w) ==
    [d \in 1..(k + 1) |-> IF d <= k THEN m ELSE [x \in {w} |-> 1]]

RepeatCorpora ==
    {RepeatCorpus(m, k, w) : m \in WordCounts, k \in 1..MaxCopies, w \in SmallWords}

WideCorpora ==
    {WideCorpus(nd, nw) : nd \in 1..MaxWideDocs, nw \in 1..MaxWideWords}

Inputs ==
    { <<"a">>, <<"A">>, <<"a", ".">>, <<"a", "p">>, <<"A", "!", "P">>,
      <<"p">>, <<"p", "a">>, <<>>, <<"-">>, <<"z">> }

\* the conversions of BigDecimal::from_f64 a build can have
Conversions == {"exact", "rounded"}

\* ------------------------------------------------------------- the state
VARIABLES
    pc,                          \* position of main (lines 33-41)
    document_word_freq,          \* document -> word -> count (line 33)
    inverse_document_frequency,  \* word -> f64 (line 35)
    tf_idf,                      \* document -> word -> f64 (line 37)
    pending,                     \* documents the fold of line 86 has not visited
    words_with_ranked_docs,      \* the fold's accumulator (line 84)
    search_trie,                 \* word -> score -> document (line 39)
    search_term,                 \* the query search is called with (line 41)
    sanitized_input,             \* line 45
    matched_prefixes,            \* line 51, after the sort and the reverse
    output,                      \* the lines search has printed
    bigdecimal,                  \* the conversion of the crate the build links
    from_f64                     \* f64 -> decimal: from_f64 on the scores of tf_idf

vars == <<pc, document_word_freq, inverse_document_frequency, tf_idf, pending,
          words_with_ranked_docs, search_trie, search_term,
          sanitized_input, matched_prefixes, output,
          bigdecimal, from_f64>>

EmptyMap == [k \in {} |-> 0]

\* HashMap / BTreeMap insert: a present key keeps one entry, the new value
MapInsert(m, k, v) == [x \in DOMAIN m \cup {k} |-> IF x = k THEN v ELSE m[x]]

MapRemove(m, k) == [x \in DOMAIN m \ {k} |-> m[x]]

\* -------------------------------------------- calc_inverse_document_freq
\* as CountDocWords, but adding the word's count in the document
CountDocWordsByCount(acc, doc_map) ==
    [k \in DOMAIN acc \cup DOMAIN doc_map |->
        IF k \in DOMAIN doc_map
        THEN (IF k \in DOMAIN acc THEN acc[k] + doc_map[k] ELSE doc_map[k])
        ELSE acc[k]]

\* lines 161-164: one document's words, each adding 1 to its entry
CountDocWords(acc, doc_map) ==
    [k \in DOMAIN acc \cup DOMAIN doc_map |->
        IF k \in DOMAIN doc_map
        THEN (IF k \in DOMAIN acc THEN acc[k] + 1 ELSE 1)
        ELSE acc[k]]

\* lines 157-165: the fold over the documents' word maps
RECURSIVE TotalWordFreq(_, _)
TotalWordFreq(dwf, docs) ==
    IF docs = {} THEN EmptyMap
    ELSE LET d == CHOOSE x \in docs : TRUE
         IN CountDocWords(TotalWordFreq(dwf, docs \ {d}), dwf[d])

\* lines 172-173
Idf(total_document_count, count) ==
    LET documents_with_term == Fraction(total_document_count + 1, count + 1)
        ln == FLn(documents_with_term)
    IN IF ln = NaN THEN NaN ELSE ln + Scale

\* lines 156-177
CalcInverseDocumentFreqOf(dwf) ==
    LET total_word_freq == TotalWordFreq(dwf, DOMAIN dwf)
        total_document_count == Cardinality(DOMAIN dwf)
    IN [word \in DOMAIN total_word_freq |->
            Idf(total_document_count, total_word_freq[word])]

\* ------------------------------------------------------------ calc_tf_idf
\* lines 115-121
TermFrequency(word_freq) ==
    LET total_word_count == SumOf(word_freq, DOMAIN word_freq)
    IN [word \in DOMAIN word_freq |->
            Fraction(word_freq[word], total_word_count)]

\* the sum of the squares, as <<h, l>>: h * Scale + l in units of 1 / Scale^2
RECURSIVE SumSquares(_, _)
SumSquares(m, keys) ==
    IF keys = {} THEN <<0, 0>>
    ELSE LET k == CHOOSE x \in keys : TRUE
             sq == MulWide(m[k], m[k])
             rest == SumSquares(m, keys \ {k})
         IN <<sq[1] + rest[1] + (sq[2] + rest[2]) \div Scale,
              (sq[2] + rest[2]) % Scale>>

\* the greatest magnitude among the components
Greatest(m) ==
    IF DOMAIN m = {} THEN 0
    ELSE LET k == CHOOSE x \in DOMAIN m : \A y \in DOMAIN m : Abs(m[y]) <= Abs(m[x])
         IN Abs(m[k])

\* lines 143-154.  An f64 keeps its relative precision at every magnitude: the
\* fixed point does so by taking the components relative to the greatest
\* one, which leaves value / l2_norm as it is.  A vector of zeros has the
\* norm 0 and 0 / 0 is a NaN; so is every component beside a NaN.
L2Normalize(tf_id) ==
    IF \E key \in DOMAIN tf_id : tf_id[key] = NaN
    THEN [key \in DOMAIN tf_id |-> NaN]
    ELSE LET greatest == Greatest(tf_id)
             relative == [key \in DOMAIN tf_id |-> FDiv(tf_id[key], greatest)]
             squares == SumSquares(relative, DOMAIN relative)
             l2_norm == SqrtWide(squares[1], squares[2])
         IN [key \in DOMAIN tf_id |->
                IF greatest = 0 THEN NaN ELSE FDiv(relative[key], l2_norm)]

\* lines 128-132
TfIdfValues(tf_scores, idf) ==
    [word \in DOMAIN tf_scores |->
        FMul(tf_scores[word], IF word \in DOMAIN idf THEN idf[word] ELSE 0)]

\* lines 126-138, one document: the digits of the scores
TfIdfScores(tf_scores, idf) == L2Normalize(TfIdfValues(tf_scores, idf))

\* What the digits leave open.  The f64 of a score is value / l2_norm
\* (line 152), value = tf_score * idf (line 130), l2_norm the square root of
\* a sum taken in the HashMap's order (lines 144-148).  Known for certain:
\*   - the same tf_score and idf give the same value;
\*   - vectors of the same values have the same l2_norm, unless the order of
\*     the sum matters: then each of them has one of several neighbouring f64;
\*   - value / l2_norm is rounded word by word, and does not grow with
\*     l2_norm: of two norms the greater gives a word the same score or a
\*     smaller one;
\*   - a vector of one value v has the norm sqrt(v * v) = v, and the score 1,
\*     and no score is greater.
\* Everything else is open: the digits of a score are within Tolerance of the
\* f64, and two f64 whose digits can be the same are in any order, or equal.
\* A score is kept as digits * places + place: its digits, and its place
\* among the f64 of those digits, with a place for every score of the corpus.

Range(m) == {m[k] : k \in DOMAIN m}

\* lines 119-132: what the f64 of a word's value is computed from
TermsOf(tf_scores, idf) ==
    [word \in DOMAIN tf_scores |->
        <<tf_scores[word], IF word \in DOMAIN idf THEN idf[word] ELSE 0>>]

\* how often each term occurs in the vector
BagOf(terms) ==
    [x \in Range(terms) |-> Cardinality({k \in DOMAIN terms : terms[k] = x})]

\* lines 144-147: an f64 sum of three terms or more, not all the same, changes
\* in its last place with the order of the terms
OrderMatters(terms) ==
    /\ Cardinality(DOMAIN terms) >= 3
    /\ Cardinality(Range(terms)) >= 2

\* the key of every score that is exactly 1
One == << <<Fraction(1, 1), Scale>>, EmptyMap >>

\* what decides the f64 of a word's score, but for the order of the sum: the
\* word's term and the terms of the vector
ScoreKey(terms, word) ==
    IF Cardinality(DOMAIN terms) = 1 THEN One
    ELSE <<terms[word], BagOf(terms)>>

\* the documents of the same terms as document d, d among them
SameTerms(terms, d) ==
    {e \in DOMAIN terms : BagOf(terms[e]) = BagOf(terms[d])}

\* the norms of the documents of SameTerms(terms, d) can differ
NormOpen(terms, d) ==
    OrderMatters(terms[d]) /\ Cardinality(SameTerms(terms, d)) >= 2

\* the greatest place a norm of document d's terms can have
Spread(terms, d) ==
    IF NormOpen(terms, d) THEN Cardinality(SameTerms(terms, d)) - 1 ELSE 0

\* the place of each norm among the norms of the same terms, the least norm
\* at place 0; the places in use have no gap
NormPlaces(terms) ==
    LET open == {d \in DOMAIN terms : NormOpen(terms, d)}
        most == IF open = {} THEN 0
                ELSE CHOOSE n \in {Spread(terms, d) : d \in open} :
                        \A d \in open : Spread(terms, d) <= n
    IN {f \in [open -> 0..most] :
           \A d \in open :
              \/ f[d] = 0
              \/ \E e \in SameTerms(terms, d) : f[e] = f[d] - 1}

\* the scores <<document, word>> there are
ScoresOf(digits) ==
    {<<d, word>> : d \in DOMAIN digits, word \in UNION {DOMAIN digits[e] : e \in DOMAIN digits}}
        \cap UNION {{<<d, word>> : word \in DOMAIN digits[d]} : d \in DOMAIN digits}

\* the f64 kept apart within the same digits: as many as the map has scores
Places(m) ==
    LET n == Cardinality(ScoresOf(m))
    IN IF n = 0 THEN 1 ELSE n

\* the keys whose score lies near the score of another key: the digits of
\* the two can be the other way round, or the same
OpenKeys(keys, digits) ==
    LET all == ScoresOf(digits)
        near(s, t) ==
            /\ digits[s[1]][s[2]] # NaN
            /\ digits[t[1]][t[2]] # NaN
            /\ Abs(digits[s[1]][s[2]] - digits[t[1]][t[2]]) <= 2 * Tolerance
    IN {keys[s[1]][s[2]] :
           s \in {x \in all :
                    /\ keys[x[1]][x[2]] # One
                    /\ \E t \in all : near(x, t) /\ keys[t[1]][t[2]] # keys[x[1]][x[2]]}}

\* the least and the greatest number a score of the digits x can be: x with
\* every place below it where the digits are certain, any digits within
\* Tolerance where the key is open, exactly 1 for the key One, and never
\* more than 1 (the norm of a vector is no less than its greatest component)
Lowest(x, key, open, places) ==
    IF key \in open THEN (x - Tolerance) * places ELSE x * places

Highest(x, key, open, places) ==
    LET top == IF key = One THEN x * places
               ELSE IF key \in open THEN (x + Tolerance) * places + (places - 1)
               ELSE x * places + (places - 1)
    IN IF top > Scale * places THEN Scale * places ELSE top

\* The orders, ties among them, the f64 of S can be in, each as the
\* numbers of the f64: the least of them as low as can be, the next by 1
\* higher or as low as it can be, and so on.  An f64 is <<key, place of the
\* norm>>, lo and hi its least and greatest number; of the f64 of one key
\* the one of the greater norm is not the greater.  No number is below floor
RECURSIVE F64Orders(_, _, _, _)
F64Orders(S, floor, lo, hi) ==
    IF S = {} THEN {EmptyMap}
    ELSE LET reach == CHOOSE h \in {hi[s] : s \in S} : \A s \in S : h <= hi[s]
             low == {s \in S : lo[s] <= reach}
         IN UNION {LET from == CHOOSE l \in {lo[s] : s \in B} :
                                   \A s \in B : lo[s] <= l
                       v == IF floor > from THEN floor ELSE from
                   IN IF /\ \A s \in B : v <= hi[s]
                         /\ \A s \in S \ B : v < hi[s]
                         /\ \A s \in B : \A t \in S \ B :
                               ~(s[1] = t[1] /\ s[2] < t[2])
                      THEN {[s \in B |-> v] @@ f :
                               f \in F64Orders(S \ B, v + 1, lo, hi)}
                      ELSE {} :
                   B \in (SUBSET low) \ {{}}}

\* the f64 of the score s = <<document, word>>: its key and the place of the
\* document's norm
F64Of(s, keys, norm) ==
    <<keys[s[1]][s[2]], IF s[1] \in DOMAIN norm THEN norm[s[1]] ELSE 0>>

\* the maps of scores for the norms at the places norm: the f64 that are
\* alone with their digits (a key that is not open, with one norm) have the
\* number of their digits, the others every order they can be in
ScoresWith(digits, keys, open, norm) ==
    LET places == Places(digits)
        numbers == {s \in ScoresOf(digits) : digits[s[1]][s[2]] # NaN}
        all == {F64Of(s, keys, norm) : s \in numbers}
        of == [x \in all |->
                  LET s == CHOOSE t \in numbers : keys[t[1]][t[2]] = x[1]
                  IN digits[s[1]][s[2]]] @@ EmptyMap
        lo == [x \in all |-> Lowest(of[x], x[1], open, places)] @@ EmptyMap
        hi == [x \in all |-> Highest(of[x], x[1], open, places)] @@ EmptyMap
        undecided == {x \in all : \/ x[1] \in open
                                  \/ x[1] = One
                                  \/ \E y \in all : y[1] = x[1] /\ y[2] # x[2]}
    IN {[d \in DOMAIN digits |->
            [word \in DOMAIN digits[d] |->
                IF digits[d][word] = NaN THEN NaN
                ELSE (order @@ lo)[F64Of(<<d, word>>, keys, norm)]]] :
        order \in F64Orders(undecided, 0, lo, hi)}

\* lines 112-141: the maps calc_tf_idf can return
CalcTfIdfOf(dwf, idf) ==
    LET tf == [d \in DOMAIN dwf |-> TermFrequency(dwf[d]) @@ EmptyMap] \o <<>>
        terms == [d \in DOMAIN dwf |-> TermsOf(tf[d], idf) @@ EmptyMap] \o <<>>
        digits == [d \in DOMAIN dwf |-> TfIdfScores(tf[d], idf) @@ EmptyMap] \o <<>>
        keys == [d \in DOMAIN dwf |->
                    [word \in DOMAIN terms[d] |-> ScoreKey(terms[d], word)] @@ EmptyMap] \o <<>>
        open == OpenKeys(keys, digits)
    IN UNION {ScoresWith(digits, keys, open, norm) : norm \in NormPlaces(terms)}

\* ------------------------------------------------------ build_search_trie
\* line 90, BigDecimal::from_f64 of a number (BuildFold has the NaN case, where
\* from_f64 is None and expect panics).  The bigdecimal crate is a dependency
\* and the build decides its version: from 0.4 the decimal is exactly the
\* binary value, and different f64 give different decimals; before, the
\* decimal is the f64 printed with 16 significant digits ("{:.15e}"), one
\* fewer than keep every f64 apart.

\* the greatest power of ten that is at most x
RECURSIVE Decade(_)
Decade(x) == IF x < 10 THEN 1 ELSE 10 * Decade(x \div 10)

\* 1 over the greatest power of two that is at most x / Scale
RECURSIVE Binade(_)
Binade(x) == IF x >= Scale THEN 1 ELSE 2 * Binade(2 * x)

\* two f64 of the digits x can print the same 16 digits: neighbours lie
\* 2^-52 of their power of two apart, and 16 digits 10^-15 of the power of
\* ten; 2^52 / 10^15 is 4.504
SixteenDigitsShared(x) ==
    x >= 1 /\ Decade(x) * Binade(x) > (Scale * 1000) \div 4504

\* the same, for the digits of a score of the model: they are within
\* Tolerance of the digits computed, and these within Tolerance of the f64
CanShare(x) ==
    \E y \in (x - 2 * Tolerance)..(x + 2 * Tolerance) : SixteenDigitsShared(y)

\* the conversions of the f64 of the map m a build can have, each the
\* decimal of every f64: the f64 itself, or with 16 digits the least of the
\* f64 that print as it does.  Which neighbours print the same the digits
\* do not tell: between two f64 whose digits can be the same it is a choice
FromF64Of(m) ==
    LET all == {m[s[1]][s[2]] : s \in ScoresOf(m)} \ {NaN}
        places == Places(m)
        below(v) == {w \in all : w < v}
        before(v) == CHOOSE w \in below(v) : \A u \in below(v) : u <= w
        open == {v \in all : /\ below(v) # {}
                             /\ v - before(v) <= 2 * Tolerance * places
                             /\ CanShare(v \div places)}
        decimal(v, shared) ==
            CHOOSE w \in all \ shared :
                w <= v /\ \A u \in all \ shared : u <= v => u <= w
    IN IF bigdecimal = "exact" THEN {[v \in all |-> v]}
       ELSE {[v \in all |-> decimal(v, shared)] : shared \in SUBSET open}

\* line 90: the decimal of a score of tf_idf
FromF64(score) == from_f64[score]

\* as FoldDoc, but a word met again gets a fresh map
FoldDocOverwrite(acc, doc, word_score_map) ==
    [word \in DOMAIN acc \cup DOMAIN word_score_map |->
        IF word \in DOMAIN word_score_map
        THEN MapInsert(EmptyMap, FromF64(word_score_map[word]), doc)
        ELSE acc[word]]

\* lines 88-98: one document's (word, score) pairs folded into the accumulator
FoldDoc(acc, doc, word_score_map) ==
    [word \in DOMAIN acc \cup DOMAIN word_score_map |->
        IF word \in DOMAIN word_score_map
        THEN (IF word \in DOMAIN acc
              THEN MapInsert(acc[word], FromF64(word_score_map[word]), doc)
              ELSE MapInsert(EmptyMap, FromF64(word_score_map[word]), doc))
        ELSE acc[word]]

\* ----------------------------------------------------------------- search
\* as PrefixWords, but yielding every word of the trie
EveryWord(trie, prefix) == DOMAIN trie

\* Trie::iter_prefix_mut: the words that have the prefix
PrefixWords(trie, prefix) == {w \in DOMAIN trie : IsPrefix(prefix, w)}

\* the trie yields its keys in byte order
RECURSIVE InKeyOrder(_)
InKeyOrder(ws) ==
    IF ws = {} THEN <<>>
    ELSE LET least == CHOOSE w \in ws : \A v \in ws \ {w} : LexLess(w, v)
         IN <<least>> \o InKeyOrder(ws \ {least})

\* as LastKey, but the least key (pop_first)
FirstKey(map) == CHOOSE k \in DOMAIN map : \A j \in DOMAIN map : k <= j

\* BTreeMap::pop_last takes the entry with the greatest key
LastKey(map) == CHOOSE k \in DOMAIN map : \A j \in DOMAIN map : j <= k

\* for _i in 1..10
PopRangeStart == 1
PopRangeEnd == 10

\* lines 53-59: the (word, doc, score) triples one matching word yields
RECURSIVE PopLoop(_, _, _)
PopLoop(word, map, i) ==
    IF i >= PopRangeEnd THEN <<>>
    ELSE IF DOMAIN map = {} THEN PopLoop(word, map, i + 1)
    ELSE LET score == LastKey(map)
         IN <<(<<word, map[score], score>>)>>
                \o PopLoop(word, MapRemove(map, score), i + 1)

\* what the loop of lines 54-58 leaves in the word's map
RECURSIVE AfterPops(_, _)
AfterPops(map, i) ==
    IF i >= PopRangeEnd \/ DOMAIN map = {} THEN map
    ELSE AfterPops(MapRemove(map, LastKey(map)), i + 1)

RECURSIVE FlatMap(_, _)
FlatMap(trie, words) ==
    IF words = <<>> THEN <<>>
    ELSE PopLoop(Head(words), trie[Head(words)], PopRangeStart)
            \o FlatMap(trie, Tail(words))

\* lines 51-61: the collected candidates
Candidates(trie, prefix) == FlatMap(trie, InKeyOrder(PrefixWords(trie, prefix)))

\* lines 51-61: the trie once the iterator has popped from every matching map
TrieAfterPops(trie, prefix) ==
    [w \in DOMAIN trie |->
        IF IsPrefix(prefix, w) THEN AfterPops(trie[w], PopRangeStart) ELSE trie[w]]

\* as Compare, but by score alone
CompareScores(x, y, input) ==
    IF x[3] < y[3] THEN "Less"
    ELSE IF x[3] > y[3] THEN "Greater"
    ELSE "Equal"

\* lines 63-70: the comparator; a candidate is <<word, doc, score>>
Compare(x, y, input) ==
    IF x[1] = input /\ y[1] # input THEN "Greater"
    ELSE IF x[1] # input /\ y[1] = input THEN "Less"
    ELSE IF x[3] < y[3] THEN "Less"
    ELSE IF x[3] > y[3] THEN "Greater"
    ELSE "Equal"

\* the place a stable sort gives s[i]: after the elements the comparator puts
\* before it and after the equal ones that came before it
SortedPlace(s, i, input) ==
    1 + Cardinality({j \in 1..Len(s) :
            \/ Compare(s[j], s[i], input) = "Less"
            \/ Compare(s[j], s[i], input) = "Equal" /\ j < i})

\* slice::sort_by is a stable sort
SortBy(s, input) ==
    LET place == [i \in 1..Len(s) |-> SortedPlace(s, i, input)] \o <<>>
    IN [p \in 1..Len(s) |-> s[CHOOSE i \in 1..Len(s) : place[i] = p]]

\* as Reverse, but leaving the order as sorted
NotReversed(s) == s

\* line 71
Reverse(s) == [i \in 1..Len(s) |-> s[Len(s) + 1 - i]]

\* lines 63-71
Ranked(trie, prefix) == Reverse(SortBy(Candidates(trie, prefix), prefix))

TakeLimit == 100

NoMatches == <<"No matches">>

\* line 78: a printed result names the document, the word and the score
EmailLine(m) == <<m[2], m[1], m[3]>>

\* as Emit, but printing every candidate
EmitAll(ranked) ==
    IF ranked = <<>> THEN <<NoMatches>>
    ELSE [i \in 1..Len(ranked) |-> EmailLine(ranked[i])]

\* as Emit, but without the is_empty test
EmitLinesOnly(ranked) ==
    [i \in 1..(IF Len(ranked) < TakeLimit THEN Len(ranked) ELSE TakeLimit) |->
        EmailLine(ranked[i])]

\* lines 73-80
Emit(ranked) ==
    IF ranked = <<>> THEN <<NoMatches>>
    ELSE [i \in 1..(IF Len(ranked) < TakeLimit THEN Len(ranked) ELSE TakeLimit) |->
            EmailLine(ranked[i])]

\* ------------------------------------------------------------ the actions
Init ==
    /\ pc = "start"
    /\ document_word_freq \in SmallCorpora \cup RepeatCorpora \cup WideCorpora
    /\ inverse_document_frequency = EmptyMap
    /\ tf_idf = EmptyMap
    /\ pending = {}
    /\ words_with_ranked_docs = EmptyMap
    /\ search_trie = EmptyMap
    /\ search_term = <<>>
    /\ sanitized_input = <<>>
    /\ matched_prefixes = <<>>
    /\ output = <<>>
    /\ bigdecimal \in Conversions
    /\ from_f64 = EmptyMap

\* line 35
CalcInverseDocumentFreq ==
    /\ pc = "start"
    /\ inverse_document_frequency' = CalcInverseDocumentFreqOf(document_word_freq)
    /\ pc' = "idf"
    /\ UNCHANGED <<document_word_freq, tf_idf, pending, words_with_ranked_docs,
                   search_trie, search_term, sanitized_input, matched_prefixes, output,
                   bigdecimal, from_f64>>

\* line 37
CalcTfIdf ==
    /\ pc = "idf"
    /\ tf_idf' \in CalcTfIdfOf(document_word_freq, inverse_document_frequency)
    /\ pc' = "tf_idf"
    /\ UNCHANGED <<document_word_freq, inverse_document_frequency, pending,
                   words_with_ranked_docs, search_trie, search_term,
                   sanitized_input, matched_prefixes, output, bigdecimal, from_f64>>

\* lines 84-86: build_search_trie starts the fold with an empty accumulator
BuildSearchTrieCall ==
    /\ pc = "tf_idf"
    /\ pending' = DOMAIN tf_idf
    /\ words_with_ranked_docs' = EmptyMap
    /\ from_f64' \in FromF64Of(tf_idf)
    /\ pc' = "fold"
    /\ UNCHANGED <<document_word_freq, inverse_document_frequency, tf_idf,
                   search_trie, search_term, sanitized_input, matched_prefixes, output,
                   bigdecimal>>

\* lines 87-99: the fold visits the documents in the HashMap's order, any order;
\* line 90 panics on a score that is no real decimal
BuildFold(doc) ==
    /\ pc = "fold"
    /\ doc \in pending
    /\ pending' = pending \ {doc}
    /\ IF \E w \in DOMAIN tf_idf[doc] : tf_idf[doc][w] = NaN
       THEN /\ pc' = "panicked"
            /\ UNCHANGED words_with_ranked_docs
       ELSE /\ pc' = "fold"
            /\ words_with_ranked_docs' =
                   FoldDoc(words_with_ranked_docs, doc, tf_idf[doc])
    /\ UNCHANGED <<document_word_freq, inverse_document_frequency, tf_idf,
                   search_trie, search_term, sanitized_input, matched_prefixes, output,
                   bigdecimal, from_f64>>

\* lines 102-109: every (word, doc_rankings) pair goes into the trie
BuildSearchTrieReturn ==
    /\ pc = "fold"
    /\ pending = {}
    /\ search_trie' = words_with_ranked_docs
    /\ pc' = "built"
    /\ UNCHANGED <<document_word_freq, inverse_document_frequency, tf_idf,
                   pending, words_with_ranked_docs, search_term,
                   sanitized_input, matched_prefixes, output, bigdecimal, from_f64>>

\* lines 44-81
Search(input) ==
    /\ pc = "built"
    /\ search_term' = input
    /\ sanitized_input' = Sanitize(input)
    /\ matched_prefixes' = Ranked(search_trie, Sanitize(input))
    /\ search_trie' = TrieAfterPops(search_trie, Sanitize(input))
    /\ output' = Emit(matched_prefixes')
    /\ pc' = "searched"
    /\ UNCHANGED <<document_word_freq, inverse_document_frequency, tf_idf,
                   pending, words_with_ranked_docs, bigdecimal, from_f64>>

Next ==
    \/ CalcInverseDocumentFreq
    \/ CalcTfIdf
    \/ BuildSearchTrieCall
    \/ \E doc \in DOMAIN tf_idf : BuildFold(doc)
    \/ BuildSearchTrieReturn
    \/ \E input \in Inputs : Search(input)

Spec == Init /\ [][Next]_vars

\* ------------------------------------------------------------- the claims
Searched == pc = "searched"

\* the positions of the ranked list whose matched word is w
ResultsOf(list, w) == {i \in 1..Len(list) : list[i][1] = w}

\* w starts with q, stated character by character
StartsWith(w, q) == Len(q) <= Len(w) /\ \A i \in 1..Len(q) : w[i] = q[i]

\* the words the corpus holds
Vocabulary == UNION {DOMAIN document_word_freq[d] : d \in DOMAIN document_word_freq}

\* the documents that hold the word
DocsWith(w) == {d \in DOMAIN document_word_freq : w \in DOMAIN document_word_freq[d]}

IsEmailLine(line) == Len(line) = 3

\* C1: in the ranked list of search every result whose matched word equals the
\* normalized query comes before every result whose matched word is a longer
\* word with that prefix, whatever the two scores are.
C1_ExactMatchesFirst ==
    Searched =>
        \A i, j \in 1..Len(matched_prefixes) :
            (/\ matched_prefixes[i][1] = sanitized_input
             /\ matched_prefixes[j][1] # sanitized_input) => i < j

\* an exact match ranked above a prefix-only match of greater score
C1_Witness ==
    /\ Searched
    /\ \E i, j \in 1..Len(matched_prefixes) :
          /\ i < j
          /\ matched_prefixes[i][1] = sanitized_input
          /\ matched_prefixes[j][1] # sanitized_input
          /\ matched_prefixes[j][3] > matched_prefixes[i][3]

\* C2: the exact-match results are in non-increasing score order among
\* themselves, and so are the prefix-only results; when no indexed word equals
\* the normalized query the whole list is in non-increasing score order.
C2_GroupsByDescendingScore ==
    Searched =>
        /\ \A i, j \in 1..Len(matched_prefixes) :
              (/\ i < j
               /\ (matched_prefixes[i][1] = sanitized_input)
                      <=> (matched_prefixes[j][1] = sanitized_input))
                  => matched_prefixes[i][3] >= matched_prefixes[j][3]
        /\ sanitized_input \notin DOMAIN search_trie =>
              \A i, j \in 1..Len(matched_prefixes) :
                  i < j => matched_prefixes[i][3] >= matched_prefixes[j][3]

\* both groups hold two results of different scores
C2_Witness ==
    /\ Searched
    /\ \E i, j, k, l \in 1..Len(matched_prefixes) :
          /\ i < j /\ j < k /\ k < l
          /\ matched_prefixes[i][1] = sanitized_input
          /\ matched_prefixes[j][1] = sanitized_input
          /\ matched_prefixes[i][3] > matched_prefixes[j][3]
          /\ matched_prefixes[k][1] # sanitized_input
          /\ matched_prefixes[l][1] # sanitized_input
          /\ matched_prefixes[k][3] > matched_prefixes[l][3]

\* C3: a call of search leaves every indexed word's score-to-document mapping
\* exactly as it was before the call.
C3_SearchLeavesIndex ==
    [][(pc = "built" /\ pc' = "searched") => search_trie' = search_trie]_vars

\* C4: a word that matches the prefix and holds k entries contributes exactly
\* min(9, k) candidates, and they are its entries with the greatest scores.
C4_TopNinePerWord ==
    [][(pc = "built" /\ pc' = "searched") =>
        \A w \in DOMAIN search_trie :
            StartsWith(w, sanitized_input') =>
                LET map == search_trie[w]
                    k == Cardinality(DOMAIN map)
                    got == ResultsOf(matched_prefixes', w)
                IN /\ Cardinality(got) = (IF k < 9 THEN k ELSE 9)
                   /\ \A s \in DOMAIN map :
                         (Cardinality({t \in DOMAIN map : t > s}) < 9)
                             <=> (\E i \in got :
                                     /\ matched_prefixes'[i][3] = s
                                     /\ matched_prefixes'[i][2] = map[s])]_vars

\* a word with more than nine entries gave nine candidates and kept the rest
C4_Witness ==
    /\ Searched
    /\ \E w \in DOMAIN search_trie :
          /\ Cardinality(ResultsOf(matched_prefixes, w)) = 9
          /\ DOMAIN search_trie[w] # {}

\* C5: search emits at most 100 results: the first min(100, n) entries of the
\* ranked list of length n, in the same order.
C5_AtMostHundred ==
    Searched =>
        LET lines == SelectSeq(output, IsEmailLine)
            n == Len(matched_prefixes)
        IN /\ Len(lines) <= 100
           /\ Len(lines) = (IF n < 100 THEN n ELSE 100)
           /\ \A i \in 1..Len(lines) :
                 lines[i] = <<matched_prefixes[i][2], matched_prefixes[i][1],
                              matched_prefixes[i][3]>>

\* more than 100 candidates were ranked and 100 lines printed
C5_Witness ==
    /\ Searched
    /\ Len(matched_prefixes) > 100
    /\ Len(output) = 100

\* C6: the normalized query is the query lowercased and without punctuation;
\* every candidate's word is an indexed word that starts with the normalized
\* query, and every indexed word that starts with it has a candidate.
C6_PrefixSoundAndComplete ==
    Searched =>
        /\ \A i \in 1..Len(sanitized_input) :
              /\ sanitized_input[i] \notin PUNCTUATION_CHARS
              /\ sanitized_input[i] \notin {"A", "P", "Z"}
        /\ Len(sanitized_input) =
              Cardinality({i \in 1..Len(search_term) :
                              search_term[i] \notin PUNCTUATION_CHARS})
        /\ \A i \in 1..Len(matched_prefixes) :
              /\ matched_prefixes[i][1] \in Vocabulary
              /\ StartsWith(matched_prefixes[i][1], sanitized_input)
        /\ \A w \in Vocabulary :
              StartsWith(w, sanitized_input)
                  => ResultsOf(matched_prefixes, w) # {}

\* a query that normalization changed matched a longer word and left one out
C6_Witness ==
    /\ Searched
    /\ search_term # sanitized_input
    /\ \E i \in 1..Len(matched_prefixes) :
          Len(matched_prefixes[i][1]) > Len(sanitized_input)
    /\ \E w \in Vocabulary : ~StartsWith(w, sanitized_input)

\* C7: in every reachable state, after search too, every word of the index
\* has a score-to-document mapping with at least one entry.
C7_EveryWordHasADocument ==
    \A w \in DOMAIN search_trie : DOMAIN search_trie[w] # {}

\* the score of the spec, the decimal the index is keyed by: the document's
\* tf-idf for the word as line 90 converts it
ScoreOf(d, w) == FromF64(tf_idf[d][w])

C9_NoMatches ==
    /\ DOMAIN document_word_freq = {} =>
          /\ pc # "panicked"
          /\ pc # "searched" => ENABLED Next
          /\ pc \in {"built", "searched"} => DOMAIN search_trie = {}
          /\ Searched => output = <<NoMatches>>
    /\ Searched =>
          /\ (\E i \in 1..Len(output) : output[i] = NoMatches)
                <=> matched_prefixes = <<>>
          /\ matched_prefixes = <<>> => output = <<NoMatches>>
          /\ matched_prefixes # <<>> => \A i \in 1..Len(output) : IsEmailLine(output[i])

\* the empty corpus was searched
C9_Witness ==
    /\ Searched
    /\ DOMAIN document_word_freq = {}
    /\ output = <<NoMatches>>

\* C10: the document frequency of a word is the number of documents whose
\* word map holds it, between 1 and N; no word has an IDF below 1, and a word
\* held by all N documents has IDF exactly 1.
C10_DocumentFrequency ==
    pc # "start" =>
        LET N == Cardinality(DOMAIN document_word_freq)
            documentFrequency ==
                TotalWordFreq(document_word_freq, DOMAIN document_word_freq)
        IN /\ DOMAIN documentFrequency = Vocabulary
           /\ DOMAIN inverse_document_frequency = Vocabulary
           /\ \A w \in Vocabulary :
                 /\ documentFrequency[w] = Cardinality(DocsWith(w))
                 /\ 1 <= documentFrequency[w]
                 /\ documentFrequency[w] <= N
                 /\ inverse_document_frequency[w] >= Scale
                 /\ Cardinality(DocsWith(w)) = N
                       => inverse_document_frequency[w] = Scale

\* a word counted twice in a document all documents hold, beside a rarer word
C10_Witness ==
    /\ pc = "idf"
    /\ Cardinality(DOMAIN document_word_freq) >= 2
    /\ \E w \in Vocabulary :
          /\ DocsWith(w) = DOMAIN document_word_freq
          /\ \E d \in DocsWith(w) : document_word_freq[d][w] > 1
          /\ inverse_document_frequency[w] = Scale
    /\ \E w \in Vocabulary :
          /\ DocsWith(w) # DOMAIN document_word_freq
          /\ inverse_document_frequency[w] > Scale

====
